---- MODULE Spec2Model ----
(***************************************************************************)
(* Model of doc/nb/SNOwGLoBES_usage.ipynb: the notebook builds the time    *)
(* bins (cell 3), calls snowglobes.generate_fluence, simulate and collate  *)
(* (cell 5) and aggregates, scales, plots and totals the per-bin event     *)
(* counts (cell 7).                                                        *)
(*                                                                         *)
(* Python floats are binary floating-point numbers.  A float is modelled   *)
(* as a record [m, e] standing for m * 2^e, normalised so that             *)
(* 2^(MantBits-1) <= |m| < 2^MantBits (zero is [m |-> 0, e |-> 0]); every  *)
(* arithmetic operation rounds its exact result to the nearest float, ties *)
(* to even, as IEEE-754 does.  CPython's float has a 53-bit significand;   *)
(* the model keeps the rounding and bounds the significand to MantBits.    *)
(***************************************************************************)
EXTENDS Integers, Sequences, FiniteSets, TLC

\* ------------------------------------------------------------------ bounds
\* Bits of the significand of a float.
MantBits == 12
\* Largest window_bins drawn as an input.
MaxBins == 3

\* ------------------------------------------------- floating-point arithmetic
RECURSIVE Pow2(_)
Pow2(n) == IF n <= 0 THEN 1 ELSE 2 * Pow2(n - 1)

RECURSIVE BitLen(_)
BitLen(n) == IF n <= 0 THEN 0 ELSE 1 + BitLen(n \div 2)

Abs(x) == IF x < 0 THEN -x ELSE x

Sign(x) == IF x < 0 THEN -1 ELSE 1

FZero == [m |-> 0, e |-> 0]

\* The float nearest to sgn * n * 2^e, n a natural number: round to nearest,
\* ties to even.
RoundInt(sgn, n, e) ==
    IF n = 0 THEN FZero
    ELSE LET len == BitLen(n)
         IN  IF len <= MantBits
             THEN [m |-> sgn * n * Pow2(MantBits - len), e |-> e - (MantBits - len)]
             ELSE LET sh   == len - MantBits
                      q    == n \div Pow2(sh)
                      r    == n % Pow2(sh)
                      half == Pow2(sh - 1)
                      up   == r > half \/ (r = half /\ q % 2 = 1)
                      q1   == IF up THEN q + 1 ELSE q
                  IN  IF q1 = Pow2(MantBits)
                      THEN [m |-> sgn * Pow2(MantBits - 1), e |-> e + sh + 1]
                      ELSE [m |-> sgn * q1, e |-> e + sh]

\* As RoundInt for the value n * 2^e plus, when sticky, a nonzero fraction of
\* 2^e: the fraction is folded into one more bit (n has more than MantBits
\* bits whenever sticky holds, so the bit lies below the rounding position).
RoundSticky(sgn, n, sticky, e) ==
    IF sticky THEN RoundInt(sgn, 2 * n + 1, e - 1) ELSE RoundInt(sgn, n, e)

\* float(n) of a Python int.
FromInt(n) == RoundInt(Sign(n), Abs(n), 0)

FlNeg(a) == [m |-> -a.m, e |-> a.e]

\* a + b of two floats.
FlAdd(a, b) ==
    IF a.m = 0 THEN b
    ELSE IF b.m = 0 THEN a
    ELSE LET hi == IF a.e >= b.e THEN a ELSE b
             lo == IF a.e >= b.e THEN b ELSE a
             d  == hi.e - lo.e
         IN  IF d > MantBits + 1 THEN hi
             ELSE IF d <= 3
             THEN LET s == hi.m * Pow2(d) + lo.m
                  IN  RoundInt(Sign(s), Abs(s), lo.e)
             ELSE LET big    == Abs(hi.m) * 8
                      small  == Abs(lo.m) \div Pow2(d - 3)
                      sticky == Abs(lo.m) % Pow2(d - 3) # 0
                      same   == Sign(hi.m) = Sign(lo.m)
                      n      == IF same THEN big + small
                                ELSE IF sticky THEN big - small - 1
                                ELSE big - small
                  IN  RoundSticky(Sign(hi.m), n, sticky, hi.e - 3)

\* a - b of two floats.
FlSub(a, b) == FlAdd(a, FlNeg(b))

\* a * b of two floats.
FlMul(a, b) ==
    LET p == a.m * b.m
    IN  RoundInt(Sign(p), Abs(p), a.e + b.e)

\* The first k bits after the binary point of r / d (0 <= r < d), with the
\* remainder: <<q, r>>.
RECURSIVE DivBits(_, _, _, _)
DivBits(r, d, k, q) ==
    IF k = 0 THEN <<q, r>>
    ELSE IF 2 * r >= d THEN DivBits(2 * r - d, d, k - 1, 2 * q + 1)
    ELSE DivBits(2 * r, d, k - 1, 2 * q)

\* a / b of two floats, b nonzero.
FlDiv(a, b) ==
    IF a.m = 0 THEN FZero
    ELSE LET na == Abs(a.m)
             nb == Abs(b.m)
             qr == DivBits(na % nb, nb, MantBits + 2, na \div nb)
         IN  RoundSticky(Sign(a.m) * Sign(b.m), qr[1], qr[2] # 0,
                         a.e - b.e - (MantBits + 2))

\* The float a decimal literal num/den denotes (num >= 0, den > 0).
FromDecimal(num, den) ==
    IF num = 0 THEN FZero
    ELSE LET sh == IF BitLen(num) > BitLen(den) THEN 0
                   ELSE BitLen(den) - BitLen(num) + 1
             up == num * Pow2(sh)
             qr == DivBits(up % den, den, MantBits + 2, up \div den)
         IN  RoundSticky(1, qr[1], qr[2] # 0, -(MantBits + 2) - sh)

\* a < b and a <= b of two floats.
FlLess(a, b) ==
    LET d == FlSub(b, a)
    IN  d.m > 0

FlLeq(a, b) == a = b \/ FlLess(a, b)

\* ------------------------------------------------------ Python collections
\* A Python list or array is a sequence; At is 0-based indexing.
At(arr, k) == arr[k + 1]

\* The builtin sum(arr): 0 + arr[0] + arr[1] + ..., added left to right; acc
\* is the sum so far, and 0 + x is x.
RECURSIVE PySumFrom(_, _, _)
PySumFrom(arr, k, acc) ==
    IF k >= Len(arr) THEN acc
    ELSE IF acc.m = 0 THEN PySumFrom(arr, k + 1, At(arr, k))
    ELSE PySumFrom(arr, k + 1, FlAdd(acc, At(arr, k)))

PySum(arr) == PySumFrom(arr, 0, FZero)

\* A string whose characters the model reads is a sequence of one-character
\* strings.  SplitFrom is str.split() from position k on, tok the token being
\* read and out the tokens read: the maximal runs of non-whitespace characters.
RECURSIVE SplitFrom(_, _, _, _)
SplitFrom(s, k, tok, out) ==
    IF k > Len(s) THEN (IF tok = <<>> THEN out ELSE Append(out, tok))
    ELSE IF s[k] = " "
         THEN SplitFrom(s, k + 1, <<>>, IF tok = <<>> THEN out ELSE Append(out, tok))
         ELSE SplitFrom(s, k + 1, Append(tok, s[k]), out)

Split(s) == SplitFrom(s, 1, <<>>, <<>>)

\* str(n) of a Python int n >= 0, as f"{n}" formats it.
Digit(d) == <<"0", "1", "2", "3", "4", "5", "6", "7", "8", "9">>[d + 1]

RECURSIVE Str(_)
Str(n) == IF n < 10 THEN Digit(n) ELSE Str(n \div 10) \o Digit(n % 10)

\* ------------------------------------------------- cell 2: the parameters
distance == 10
detector == "icecube"
modeltype == "Zha_2021"
model == "s17"
transformation == "AdiabaticMSW_NMO"
SNOwGLoBES_path == "/path/to/snowglobes/"
SNEWPY_models_base == "/path/to/snewpy/models/"
modelfile == SNEWPY_models_base \o "/" \o modeltype \o "/" \o model \o ".dat"
outfile == modeltype \o "_" \o model \o "_" \o transformation

\* The windows <<window_tstart, window_tend>> the notebook is run with: the
\* configured one (lines 69-70), a dyadic one and one a few floats wide.
Windows ==
    { <<FromDecimal(742, 1000), FromDecimal(762, 1000)>>,
      <<FromDecimal(500, 1000), FromDecimal(1000, 1000)>>,
      <<FromDecimal(742, 1000), FromDecimal(743, 1000)>> }

\* ----------------------------------------------------- cell 3: time bins
\* Linspace with the default endpoint=True: num points from start to stop, the
\* last one stop itself.
Linspace_Endpoint(start, stop, num) ==
    LET delta == FlSub(stop, start)
        step  == IF num > 1 THEN FlDiv(delta, FromInt(num - 1)) ELSE delta
    IN  [k \in 1..num |->
            IF k = num /\ num > 1 THEN stop
            ELSE FlAdd(FlMul(FromInt(k - 1), step), start)]

\* np.linspace(start, stop, num, endpoint=False): arange(0, num) * step + start
\* with step = (stop - start) / num.
Linspace(start, stop, num) ==
    LET delta == FlSub(stop, start)
        step  == FlDiv(delta, FromInt(num))
    IN  [k \in 1..num |-> FlAdd(FlMul(FromInt(k - 1), step), start)]

\* tend = tstart + (window_tend - window_tstart) / window_bins
BinEnds(ts, wstart, wend, bins) ==
    LET width == FlDiv(FlSub(wend, wstart), FromInt(bins))
    IN  [k \in 1..Len(ts) |-> FlAdd(ts[k], width)]

\* BinMids without the factor 0.5.
BinMids_NoHalf(ts, te) ==
    [k \in 1..Len(ts) |-> FlAdd(ts[k], te[k])]

\* tmid = (tstart + tend) * 0.5
BinMids(ts, te) ==
    [k \in 1..Len(ts) |-> FlMul(FlAdd(ts[k], te[k]), FromDecimal(5, 10))]

\* ------------------------------------------- the external toolkit's results
\* The archive paths generate_fluence may return.
Artifacts == {modelfile \o ".tar.bz2", outfile \o ".kpc.tar.bz2"}

\* The name collate gives the table of fluence file b, detector det and
\* processing stage.
CollatedName(name, b, det, stage) ==
    "Collated_" \o name \o "_" \o Str(b) \o "_" \o det \o "_" \o stage \o ".dat"

Col(ns) == [k \in 1..Len(ns) |-> FromInt(ns[k])]

\* Tables collate may return for one bin: a header line and the columns of
\* numbers; column 0 is the energy.
TableSet ==
    { [header |-> <<"E", " ", "a", " ", "b">>,
       data   |-> <<Col(<<5, 7>>), Col(<<1, 2>>), Col(<<3, 0>>)>>],
      [header |-> <<" ", "E", " ", " ", "a", " ">>,
       data   |-> <<Col(<<5, 7>>), Col(<<4, 1>>), Col(<<9, 9>>)>>],
      [header |-> <<"E">>,
       data   |-> <<Col(<<5, 7>>)>>],
      [header |-> <<>>,
       data   |-> <<>>],
      [header |-> <<"E", " ", "a", " ", "b">>,
       data   |-> <<Col(<<5, 7>>), Col(<<1, 2>>)>>] }

\* The table of another processing stage, which the notebook never reads.
UnsmearedTable ==
    [header |-> <<"E", " ", "a">>, data |-> <<Col(<<5, 7>>), Col(<<8, 8>>)>>]

\* The mapping collate returns when the toolkit produced results for the bins
\* DOMAIN res, the table of bin b being res[b].
CollateResult(res) ==
    LET keysS     == {CollatedName(outfile, b, detector, "events_smeared_weighted") :
                         b \in DOMAIN res}
        keysU     == {CollatedName(outfile, b, detector, "events_unsmeared_weighted") :
                         b \in DOMAIN res}
        binOf(k)  == CHOOSE b \in DOMAIN res :
                         k = CollatedName(outfile, b, detector, "events_smeared_weighted")
    IN  [k \in keysS \cup keysU |->
            IF k \in keysS THEN res[binOf(k)] ELSE UnsmearedTable]

\* ------------------------------------------------------------------ state
VARIABLES
    pc,             \* the statement the notebook executes next
    window_tstart,  \* cell 3
    window_tend,
    window_bins,
    tstart,
    tend,
    tmid,
    tarredfile,     \* cell 5
    tables,
    calls,          \* the calls made to the external toolkit, with arguments
    nevents,        \* cell 7
    i,
    j,
    key,
    ncols,          \* the stop of the inner range, len(header.split())
    factor,
    stdout,         \* the lines printed
    figures,        \* the plots shown
    error,          \* the exception that ended the run, or "None"
    steps,          \* the steps begun so far, in order
    lookups         \* the keys tables was indexed with, in order

vars == <<pc, window_tstart, window_tend, window_bins, tstart, tend, tmid,
          tarredfile, tables, calls, nevents, i, j, key, ncols, factor,
          stdout, figures, error, steps, lookups>>

cell3vars == <<window_tstart, window_tend, window_bins, tstart, tend, tmid>>
cell5vars == <<tarredfile, tables, calls>>
loopvars == <<nevents, i, j, key, ncols, lookups>>

Init ==
    /\ pc = "cell3"
    /\ \E w \in Windows : window_tstart = w[1] /\ window_tend = w[2]
    /\ window_bins \in 1..MaxBins
    /\ tstart = <<>>
    /\ tend = <<>>
    /\ tmid = <<>>
    /\ tarredfile = "None"
    /\ tables = <<>>
    /\ calls = <<>>
    /\ nevents = <<>>
    /\ i = 0
    /\ j = 0
    /\ key = "None"
    /\ ncols = 0
    /\ factor = FZero
    /\ stdout = <<>>
    /\ figures = <<>>
    /\ error = "None"
    /\ steps = <<>>
    /\ lookups = <<>>

\* Raise with the exception swallowed: the run goes on with the aggregation.
Raise_Swallowed(exc) ==
    /\ pc' = "zeros"
    /\ error' = exc

\* An exception reaches the notebook's top level: the run ends.
Raise(exc) ==
    /\ pc' = "failed"
    /\ error' = exc

\* Cell 3, lines 72-74.
BuildBins ==
    /\ pc = "cell3"
    /\ tstart' = Linspace(window_tstart, window_tend, window_bins)
    /\ tend' = BinEnds(tstart', window_tstart, window_tend, window_bins)
    /\ tmid' = BinMids(tstart', tend')
    /\ steps' = Append(steps, "build_bins")
    /\ pc' = "generate_fluence"
    /\ UNCHANGED <<window_tstart, window_tend, window_bins, cell5vars, loopvars,
                   factor, stdout, figures, error>>

\* A call of the toolkit: the function, its arguments and what came back (the
\* returned path, "None", "dict" for the mapping, or "raised").
Call(f, a, r) == [fn |-> f, args |-> a, ret |-> r]

\* The arguments of the three calls.
FluenceArgs == <<modelfile, modeltype, transformation, distance, outfile, tstart, tend>>
\* SimulateArgs with the output name in the place of the archive.
SimulateArgs_Outfile == <<SNOwGLoBES_path, outfile, detector>>

SimulateArgs == <<SNOwGLoBES_path, tarredfile, detector>>
CollateArgs == <<SNOwGLoBES_path, tarredfile>>

\* Cell 5, lines 92-93.
GenerateFluence ==
    /\ pc = "generate_fluence"
    /\ stdout' = Append(stdout, <<"Preparing fluences ...">>)
    /\ steps' = Append(steps, "generate_fluence")
    /\ \/ /\ tarredfile' \in Artifacts
          /\ calls' = Append(calls, Call("generate_fluence", FluenceArgs, tarredfile'))
          /\ pc' = "simulate"
          /\ UNCHANGED error
       \/ /\ Raise("generate_fluence")
          /\ calls' = Append(calls, Call("generate_fluence", FluenceArgs, "raised"))
          /\ UNCHANGED tarredfile
    /\ UNCHANGED <<cell3vars, tables, loopvars, factor, figures>>

\* Simulate with the collation skipped: the aggregation follows at once.
Simulate_SkipsCollate ==
    /\ pc = "simulate"
    /\ stdout' = Append(stdout, <<"Running SNOwGLoBES ...">>)
    /\ steps' = Append(steps, "simulate")
    /\ \/ /\ calls' = Append(calls, Call("simulate", SimulateArgs, "None"))
          /\ pc' = "zeros"
          /\ UNCHANGED error
       \/ /\ Raise("simulate")
          /\ calls' = Append(calls, Call("simulate", SimulateArgs, "raised"))
    /\ UNCHANGED <<cell3vars, tarredfile, tables, loopvars, factor, figures>>

\* Cell 5, lines 96-97.
Simulate ==
    /\ pc = "simulate"
    /\ stdout' = Append(stdout, <<"Running SNOwGLoBES ...">>)
    /\ steps' = Append(steps, "simulate")
    /\ \/ /\ calls' = Append(calls, Call("simulate", SimulateArgs, "None"))
          /\ pc' = "collate"
          /\ UNCHANGED error
       \/ /\ Raise("simulate")
          /\ calls' = Append(calls, Call("simulate", SimulateArgs, "raised"))
    /\ UNCHANGED <<cell3vars, tarredfile, tables, loopvars, factor, figures>>

\* Cell 5, lines 100-101.  The toolkit made one fluence file for each interval
\* it was given (line 68) and returns a table for each, or for some of them.
Collate ==
    /\ pc = "collate"
    /\ stdout' = Append(stdout, <<"Collating results ...">>)
    /\ steps' = Append(steps, "collate")
    /\ \/ /\ \E present \in SUBSET (0..(Len(calls[1].args[6]) - 1)) :
                \E res \in [present -> TableSet] :
                    tables' = CollateResult(res)
          /\ calls' = Append(calls, Call("collate", CollateArgs, "dict"))
          /\ pc' = "zeros"
          /\ UNCHANGED error
       \/ /\ Raise("collate")
          /\ calls' = Append(calls, Call("collate", CollateArgs, "raised"))
          /\ UNCHANGED tables
    /\ UNCHANGED <<cell3vars, tarredfile, loopvars, factor, figures>>

\* ---------------------------------------------------------------- cell 7
\* Key with the bins numbered from 1.
Key_OneBased(n) ==
    "Collated_" \o outfile \o "_" \o Str(n + 1) \o "_" \o detector
        \o "_events_smeared_weighted.dat"

\* Key with the last digit of the bin index only.
Key_LastDigit(n) ==
    "Collated_" \o outfile \o "_" \o Str(n % 10) \o "_" \o detector
        \o "_events_smeared_weighted.dat"

\* Line 140.
Key(n) ==
    "Collated_" \o outfile \o "_" \o Str(n) \o "_" \o detector
        \o "_events_smeared_weighted.dat"

\* Line 138.
Zeros(n) == [k \in 1..n |-> FZero]

InitNevents ==
    /\ pc = "zeros"
    /\ nevents' = Zeros(Len(tmid))
    /\ i' = 0
    /\ steps' = Append(steps, "aggregate")
    /\ pc' = "outer"
    /\ UNCHANGED <<cell3vars, cell5vars, j, key, ncols, lookups, factor, stdout,
                   figures, error>>

\* OuterStep with the inner range starting at column 0.
OuterStep_FromColumnZero ==
    /\ pc = "outer"
    /\ IF i < Len(tmid)
       THEN /\ key' = Key(i)
            /\ lookups' = Append(lookups, key')
            /\ IF key' \in DOMAIN tables
               THEN /\ ncols' = Len(Split(tables[key'].header))
                    /\ j' = 0
                    /\ pc' = "inner"
                    /\ UNCHANGED error
               ELSE /\ Raise("KeyError")
                    /\ UNCHANGED <<ncols, j>>
       ELSE /\ pc' = "factor"
            /\ UNCHANGED <<key, lookups, ncols, j, error>>
    /\ UNCHANGED <<cell3vars, cell5vars, nevents, i, factor, stdout, figures, steps>>

\* OuterStep with tables.get(key): a bin without a table is skipped and keeps
\* the count 0.
OuterStep_SkipsMissing ==
    /\ pc = "outer"
    /\ IF i < Len(tmid)
       THEN /\ key' = Key(i)
            /\ lookups' = Append(lookups, key')
            /\ IF key' \in DOMAIN tables
               THEN /\ ncols' = Len(Split(tables[key'].header))
                    /\ j' = 1
                    /\ pc' = "inner"
                    /\ UNCHANGED <<i, error>>
               ELSE /\ i' = i + 1
                    /\ UNCHANGED <<pc, ncols, j, error>>
       ELSE /\ pc' = "factor"
            /\ UNCHANGED <<key, lookups, ncols, i, j, error>>
    /\ UNCHANGED <<cell3vars, cell5vars, nevents, factor, stdout, figures, steps>>

\* OuterStep with the loop over range(len(tmid) - 1): the last bin is left out.
OuterStep_OneShort ==
    /\ pc = "outer"
    /\ IF i < Len(tmid) - 1
       THEN /\ key' = Key(i)
            /\ lookups' = Append(lookups, key')
            /\ IF key' \in DOMAIN tables
               THEN /\ ncols' = Len(Split(tables[key'].header))
                    /\ j' = 1
                    /\ pc' = "inner"
                    /\ UNCHANGED error
               ELSE /\ Raise("KeyError")
                    /\ UNCHANGED <<ncols, j>>
       ELSE /\ pc' = "factor"
            /\ UNCHANGED <<key, lookups, ncols, j, error>>
    /\ UNCHANGED <<cell3vars, cell5vars, nevents, i, factor, stdout, figures, steps>>

\* Lines 139-141: the next bin, its key and the stop of the inner range; the
\* loop ends after len(tmid) bins.  tables[key] raises KeyError when the
\* mapping has no such key.
OuterStep ==
    /\ pc = "outer"
    /\ IF i < Len(tmid)
       THEN /\ key' = Key(i)
            /\ lookups' = Append(lookups, key')
            /\ IF key' \in DOMAIN tables
               THEN /\ ncols' = Len(Split(tables[key'].header))
                    /\ j' = 1
                    /\ pc' = "inner"
                    /\ UNCHANGED error
               ELSE /\ Raise("KeyError")
                    /\ UNCHANGED <<ncols, j>>
       ELSE /\ pc' = "factor"
            /\ UNCHANGED <<key, lookups, ncols, j, error>>
    /\ UNCHANGED <<cell3vars, cell5vars, nevents, i, factor, stdout, figures, steps>>

\* InnerStep with the inner range stopping at the last column the data has.
InnerStep_StopsAtData ==
    /\ pc = "inner"
    /\ IF j < ncols /\ j < Len(tables[key].data)
       THEN /\ nevents' = [nevents EXCEPT
                              ![i + 1] = FlAdd(@, PySum(At(tables[key].data, j)))]
            /\ j' = j + 1
            /\ lookups' = Append(lookups, key)
            /\ UNCHANGED <<i, pc, error>>
       ELSE /\ i' = i + 1
            /\ pc' = "outer"
            /\ UNCHANGED <<nevents, j, lookups, error>>
    /\ UNCHANGED <<cell3vars, cell5vars, key, ncols, factor, stdout, figures, steps>>

\* InnerStep with the column's sum added to the whole array (nevents += ...).
InnerStep_AddsToAll ==
    /\ pc = "inner"
    /\ IF j < ncols
       THEN IF j < Len(tables[key].data)
            THEN /\ nevents' = [k \in 1..Len(nevents) |->
                                   FlAdd(nevents[k], PySum(At(tables[key].data, j)))]
                 /\ j' = j + 1
                 /\ lookups' = Append(lookups, key)
                 /\ UNCHANGED <<i, pc, error>>
            ELSE /\ Raise("IndexError")
                 /\ lookups' = Append(lookups, key)
                 /\ UNCHANGED <<nevents, i, j>>
       ELSE /\ i' = i + 1
            /\ pc' = "outer"
            /\ UNCHANGED <<nevents, j, lookups, error>>
    /\ UNCHANGED <<cell3vars, cell5vars, key, ncols, factor, stdout, figures, steps>>

\* Line 142: one column of the bin; after the last one the outer loop goes
\* on.  data[j] raises IndexError when the table has no column j.
InnerStep ==
    /\ pc = "inner"
    /\ IF j < ncols
       THEN IF j < Len(tables[key].data)
            THEN /\ nevents' = [nevents EXCEPT
                                   ![i + 1] = FlAdd(@, PySum(At(tables[key].data, j)))]
                 /\ j' = j + 1
                 /\ lookups' = Append(lookups, key)
                 /\ UNCHANGED <<i, pc, error>>
            ELSE /\ Raise("IndexError")
                 /\ lookups' = Append(lookups, key)
                 /\ UNCHANGED <<nevents, i, j>>
       ELSE /\ i' = i + 1
            /\ pc' = "outer"
            /\ UNCHANGED <<nevents, j, lookups, error>>
    /\ UNCHANGED <<cell3vars, cell5vars, key, ncols, factor, stdout, figures, steps>>

\* Factor per second: the division by 1000 left out.
Factor_PerSecond(bins, wstart, wend) ==
    FlDiv(FromInt(bins), FlSub(wend, wstart))

\* Line 145: factor = window_bins / (window_tend - window_tstart) / 1000
Factor(bins, wstart, wend) ==
    FlDiv(FlDiv(FromInt(bins), FlSub(wend, wstart)), FromInt(1000))

ComputeFactor ==
    /\ pc = "factor"
    /\ factor' = Factor(window_bins, window_tstart, window_tend)
    /\ pc' = "plot"
    /\ UNCHANGED <<cell3vars, cell5vars, loopvars, stdout, figures, error, steps>>

\* PlotX without the offset: the midpoints themselves are plotted.
PlotX_NoOffset(mids) == [k \in 1..Len(mids) |-> mids[k]]

\* Lines 147-150: plt.plot(tmid - 0.742 * u.s, nevents * factor)
PlotX(mids) == [k \in 1..Len(mids) |-> FlSub(mids[k], FromDecimal(742, 1000))]

PlotY(counts, f) == [k \in 1..Len(counts) |-> FlMul(counts[k], f)]

\* Plot with nevents scaled in place (nevents *= factor).
Plot_ScalesInPlace ==
    /\ pc = "plot"
    /\ nevents' = PlotY(nevents, factor)
    /\ figures' = Append(figures, [x |-> PlotX(tmid), y |-> nevents'])
    /\ steps' = Append(steps, "plot")
    /\ pc' = "total"
    /\ UNCHANGED <<cell3vars, cell5vars, i, j, key, ncols, lookups, factor, stdout,
                   error>>

Plot ==
    /\ pc = "plot"
    /\ figures' = Append(figures, [x |-> PlotX(tmid), y |-> PlotY(nevents, factor)])
    /\ steps' = Append(steps, "plot")
    /\ pc' = "total"
    /\ UNCHANGED <<cell3vars, cell5vars, loopvars, factor, stdout, error>>

\* Line 152: print("Total Events:", sum(nevents))
TotalEvents(counts) == PySum(counts)

PrintTotal ==
    /\ pc = "total"
    /\ stdout' = Append(stdout, <<"Total Events:", TotalEvents(nevents)>>)
    /\ steps' = Append(steps, "total")
    /\ pc' = "done"
    /\ UNCHANGED <<cell3vars, cell5vars, loopvars, factor, figures, error>>

Next ==
    \/ BuildBins
    \/ GenerateFluence
    \/ Simulate
    \/ Collate
    \/ InitNevents
    \/ OuterStep
    \/ InnerStep
    \/ ComputeFactor
    \/ Plot
    \/ PrintTotal

Spec == Init /\ [][Next]_vars

\* ------------------------------------- the notebook as configured (cell 3)
\* Line 71: window_bins = 60
ConfiguredBins == 60

\* The state after construction with the values of lines 69-71.
InitConfigured ==
    /\ pc = "cell3"
    /\ window_tstart = FromDecimal(742, 1000)
    /\ window_tend = FromDecimal(762, 1000)
    /\ window_bins = ConfiguredBins
    /\ tstart = <<>>
    /\ tend = <<>>
    /\ tmid = <<>>
    /\ tarredfile = "None"
    /\ tables = <<>>
    /\ calls = <<>>
    /\ nevents = <<>>
    /\ i = 0
    /\ j = 0
    /\ key = "None"
    /\ ncols = 0
    /\ factor = FZero
    /\ stdout = <<>>
    /\ figures = <<>>
    /\ error = "None"
    /\ steps = <<>>
    /\ lookups = <<>>

\* Tables without data: a header of one token and one of two.
EmptyTables ==
    { [header |-> <<"E">>, data |-> <<>>],
      [header |-> <<"E", " ", "a">>, data |-> <<>>] }

\* Cell 5, lines 100-101, for a toolkit that makes tables of one shape for the
\* even-numbered intervals and of one for the odd-numbered: a table for every
\* interval it was given, or for the first few of them only.
CollateConfigured ==
    /\ pc = "collate"
    /\ stdout' = Append(stdout, <<"Collating results ...">>)
    /\ steps' = Append(steps, "collate")
    /\ \/ /\ \E n \in {Len(calls[1].args[6]), 2} : \E t, u \in TableSet \cup EmptyTables :
                tables' = CollateResult([b \in 0..(n - 1) |->
                                            IF b % 2 = 0 THEN t ELSE u])
          /\ calls' = Append(calls, Call("collate", CollateArgs, "dict"))
          /\ pc' = "zeros"
          /\ UNCHANGED error
       \/ /\ Raise("collate")
          /\ calls' = Append(calls, Call("collate", CollateArgs, "raised"))
          /\ UNCHANGED tables
    /\ UNCHANGED <<cell3vars, tarredfile, loopvars, factor, figures>>

NextConfigured ==
    \/ BuildBins
    \/ GenerateFluence
    \/ Simulate
    \/ CollateConfigured
    \/ InitNevents
    \/ OuterStep
    \/ InnerStep
    \/ ComputeFactor
    \/ Plot
    \/ PrintTotal

SpecConfigured == InitConfigured /\ [][NextConfigured]_vars

\* ================================================================ claims
IsPrefix(s, t) == Len(s) <= Len(t) /\ \A k \in 1..Len(s) : s[k] = t[k]

StepOrder ==
    <<"build_bins", "generate_fluence", "simulate", "collate", "aggregate",
      "plot", "total">>

CallOrder == <<"generate_fluence", "simulate", "collate">>

CallNames == [k \in 1..Len(calls) |-> calls[k].fn]

\* The number of steps begun when the notebook is at pc.
StepsBegun(at) ==
    CASE at = "cell3" -> 0
      [] at = "generate_fluence" -> 1
      [] at = "simulate" -> 2
      [] at = "collate" -> 3
      [] at = "zeros" -> 4
      [] at \in {"outer", "inner", "factor", "plot"} -> 5
      [] at = "total" -> 6
      [] at = "done" -> 7

AggregationDone == pc \in {"factor", "plot", "total", "done"}

HasTotal == \E k \in 1..Len(stdout) : stdout[k][1] = "Total Events:"

\* C1: the steps run one after another in the fixed order build bins,
\* generate_fluence, simulate, collate, aggregate, plot, total: the steps begun
\* are always an initial part of that order, as many as the position of the
\* notebook says, a call is made only after the previous one returned, and a
\* completed run made each of the three calls exactly once.
C1_FixedOrder ==
    /\ IsPrefix(steps, StepOrder)
    /\ IsPrefix(CallNames, CallOrder)
    /\ pc # "failed" => Len(steps) = StepsBegun(pc)
    /\ \A k \in 1..Len(calls) : k < Len(calls) => calls[k].ret # "raised"
    /\ Len(steps) >= 5 => Len(calls) = 3
    /\ pc = "done" => steps = StepOrder /\ CallNames = CallOrder

C1_Witness == pc = "done" /\ steps = StepOrder /\ Len(calls) = 3

ExternalFailure == error \in {"generate_fluence", "simulate", "collate"}

\* C2: when generate_fluence, simulate or collate fails, the failure ends the
\* run: the failed call is the last call and the last step, it was made once,
\* and no event counts, plot or total exist.
C2_FailurePropagates ==
    ExternalFailure =>
        /\ pc = "failed"
        /\ calls[Len(calls)].fn = error
        /\ calls[Len(calls)].ret = "raised"
        /\ Cardinality({k \in 1..Len(calls) : calls[k].fn = error}) = 1
        /\ steps[Len(steps)] = error
        /\ nevents = <<>>
        /\ lookups = <<>>
        /\ figures = <<>>
        /\ ~HasTotal

C2_Witness ==
    /\ error = "simulate"
    /\ pc = "failed"
    /\ Len(calls) = 2
    /\ calls[1].ret \in Artifacts

\* The keys of lookups with repeated lookups of one key counted once.
RECURSIVE Runs(_)
Runs(s) ==
    IF Len(s) <= 1 THEN s
    ELSE LET rest == Runs(Tail(s))
         IN  IF s[1] = rest[1] THEN rest ELSE <<s[1]>> \o rest

SmearedName(b) == CollatedName(outfile, b, detector, "events_smeared_weighted")

\* C3: the aggregation reads the tables of the bins 0, 1, 2, ... in this
\* order, one table for each bin and none twice; when it is done it has read
\* window_bins tables, as many as the intervals given to generate_fluence.
C3_OneTablePerInterval ==
    /\ \A k \in 1..Len(Runs(lookups)) : Runs(lookups)[k] = SmearedName(k - 1)
    /\ Len(Runs(lookups)) <= window_bins
    /\ AggregationDone =>
          /\ Len(Runs(lookups)) = window_bins
          /\ Len(Runs(lookups)) = Len(calls[1].args[6])
          /\ Len(calls[1].args[6]) = Len(calls[1].args[7])

C3_Witness ==
    /\ AggregationDone
    /\ window_bins = 3
    /\ Len(lookups) > 3
    /\ Runs(lookups) = <<SmearedName(0), SmearedName(1), SmearedName(2)>>

\* ---------------------------------------------- exact values of the floats
\* The least exponent of the floats of S.
MinExp(S) == CHOOSE e \in {a.e : a \in S} : \A a \in S : e <= a.e

Range(seq) == {seq[k] : k \in 1..Len(seq)}

\* The floats of cell 3 and the exponent of the unit they are all whole
\* multiples of.
BinFloats == {window_tstart, window_tend} \cup Range(tstart) \cup Range(tend) \cup Range(tmid)

BinUnit == MinExp(BinFloats)

\* The exact value of float a, in units of 2^BinUnit.
Ex(a) == a.m * Pow2(a.e - BinUnit)

\* One unit in the last place of float a, in units of 2^BinUnit.
Ulp(a) == Pow2(a.e - BinUnit)

\* One unit in the last place of the window bound of the larger magnitude.
WindowUlp ==
    IF FlLess(FlNeg(window_tend), window_tstart) THEN Ulp(window_tend)
    ELSE Ulp(window_tstart)

BinsBuilt == pc # "cell3"

\* C4, as claimed: the intervals tile [window_tstart, window_tend) exactly:
\* window_bins intervals, the first starting at window_tstart, all of the width
\* (window_tend - window_tstart) / window_bins, each ending where the next one
\* starts, the last ending at window_tend.
C4_ExactTiling ==
    BinsBuilt =>
        /\ Len(tstart) = window_bins
        /\ Len(tend) = window_bins
        /\ tstart[1] = window_tstart
        /\ \A k \in 1..window_bins :
              window_bins * (Ex(tend[k]) - Ex(tstart[k])) = Ex(window_tend) - Ex(window_tstart)
        /\ \A k \in 1..(window_bins - 1) : tend[k] = tstart[k + 1]
        /\ tend[window_bins] = window_tend

\* C4, amended: there are window_bins intervals, the first starts at
\* window_tstart exactly and no interval ends before it starts; the width of
\* every interval, the end of each against the start of the next, and the end
\* of the last against window_tend agree to within 8 units in the last place
\* of the window bound of the larger magnitude.
C4_TilingUpToRounding ==
    BinsBuilt =>
        /\ Len(tstart) = window_bins
        /\ Len(tend) = window_bins
        /\ tstart[1] = window_tstart
        /\ \A k \in 1..window_bins : FlLeq(tstart[k], tend[k])
        /\ \A k \in 1..window_bins :
              Abs(window_bins * (Ex(tend[k]) - Ex(tstart[k]))
                    - (Ex(window_tend) - Ex(window_tstart)))
                 <= 8 * window_bins * WindowUlp
        /\ \A k \in 1..(window_bins - 1) :
              Abs(Ex(tend[k]) - Ex(tstart[k + 1])) <= 8 * WindowUlp
        /\ Abs(Ex(tend[window_bins]) - Ex(window_tend)) <= 8 * WindowUlp

\* Three intervals, one of which does not end where the next one starts.
C4_Witness ==
    /\ BinsBuilt
    /\ window_bins = 3
    /\ \E k \in 1..2 : tend[k] # tstart[k + 1]
    /\ tstart[1] = window_tstart

\* The integer an integer-valued float stands for.
ToInt(a) == IF a.e >= 0 THEN a.m * Pow2(a.e) ELSE a.m \div Pow2(-a.e)

RECURSIVE IntSum(_)
IntSum(col) == IF col = <<>> THEN 0 ELSE ToInt(Head(col)) + IntSum(Tail(col))

\* The number of whitespace-separated tokens of a header: the characters that
\* start one.
TokenCount(h) ==
    Cardinality({k \in 1..Len(h) : h[k] # " " /\ (k = 1 \/ h[k - 1] = " ")})

\* The sum of all entries of the columns first .. last of a table.
RECURSIVE ColumnsSum(_, _, _)
ColumnsSum(t, first, last) ==
    IF first > last THEN 0
    ELSE IntSum(At(t.data, first)) + ColumnsSum(t, first + 1, last)

\* The sum of the entries of columns 1 .. H-1 of the table of bin b.
BinEntrySum(b) ==
    LET t == tables[SmearedName(b)]
    IN  ColumnsSum(t, 1, TokenCount(t.header) - 1)

RECURSIVE AllEntrySum(_)
AllEntrySum(n) == IF n = 0 THEN 0 ELSE AllEntrySum(n - 1) + BinEntrySum(n - 1)

\* C5: after the aggregation, nevents[i] is the sum of all entries of the
\* columns 1 .. H-1 of the table of bin i, H the number of tokens of its
\* header; column 0 is not in the sum.
C5_BinCountIsColumnSum ==
    AggregationDone =>
        \A b \in 0..(window_bins - 1) : At(nevents, b) = FromInt(BinEntrySum(b))

\* Bin 0 has a header of three tokens, bin 1 a header of two tokens set in
\* extra whitespace and a column more than the header names.
C5_Witness ==
    /\ AggregationDone
    /\ window_bins >= 2
    /\ TokenCount(tables[SmearedName(0)].header) = 3
    /\ At(nevents, 0) = FromInt(6)
    /\ Len(tables[SmearedName(1)].header) = 6
    /\ At(nevents, 1) = FromInt(4 + 1)

PlotDone == pc \in {"total", "done"}

One == FromInt(1)

\* The width of one bin in milliseconds.
WidthMs ==
    FlMul(FlDiv(FlSub(window_tend, window_tstart), FromInt(window_bins)), FromInt(1000))

\* x = y to within a relative error of 2^(3 - MantBits).
RelClose(x, y) ==
    IF x = y THEN TRUE
    ELSE IF x.m = 0 \/ y.m = 0 \/ Abs(x.e - y.e) > 2 THEN FALSE
    ELSE LET u  == IF x.e < y.e THEN x.e ELSE y.e
             xv == x.m * Pow2(x.e - u)
             yv == y.m * Pow2(y.e - u)
         IN  Abs(xv - yv) * Pow2(MantBits - 3) <= Abs(yv)

\* C6, as claimed: factor is the reciprocal of the bin width in ms, and the
\* plotted value nevents[i] * factor times the bin width in ms is nevents[i].
C6_ExactRoundTrip ==
    PlotDone =>
        /\ FlMul(factor, WidthMs) = One
        /\ \A k \in 1..Len(nevents) : FlMul(figures[1].y[k], WidthMs) = nevents[k]

\* C6, amended: factor is the reciprocal of the bin width in ms up to
\* rounding: factor times the width, and the plotted value times the width
\* against nevents[i], agree to within a relative error of 2^(3 - MantBits);
\* a count of 0 is plotted as 0.
C6_RoundTripUpToRounding ==
    PlotDone =>
        /\ RelClose(FlMul(factor, WidthMs), One)
        /\ Len(figures[1].y) = Len(nevents)
        /\ \A k \in 1..Len(nevents) :
              /\ RelClose(FlMul(figures[1].y[k], WidthMs), nevents[k])
              /\ nevents[k] = FZero => figures[1].y[k] = FZero

\* A nonzero count that the plotted value times the width does not give back.
C6_Witness ==
    /\ PlotDone
    /\ \E k \in 1..Len(nevents) :
          /\ nevents[k] # FZero
          /\ FlMul(figures[1].y[k], WidthMs) # nevents[k]

\* C7: the total printed is the sum of the per-bin counts, the sum of all
\* entries of the columns 1 .. H-1 of all bins' tables; the counts are those
\* of the aggregation, not scaled by factor.
C7_TotalIsUnscaledSum ==
    pc = "done" =>
        /\ stdout[Len(stdout)] = <<"Total Events:", FromInt(AllEntrySum(window_bins))>>
        /\ Cardinality({k \in 1..Len(stdout) : stdout[k][1] = "Total Events:"}) = 1
        /\ \A b \in 0..(window_bins - 1) : At(nevents, b) = FromInt(BinEntrySum(b))

C7_Witness ==
    /\ pc = "done"
    /\ window_bins = 3
    /\ factor # One
    /\ At(nevents, 0) = FromInt(6)
    /\ stdout[Len(stdout)] = <<"Total Events:", FromInt(6 + 5 + 0)>>

C9_MissingKeyFails ==
    /\ error = "KeyError" =>
          /\ pc = "failed"
          /\ i < Len(tmid)
          /\ key = SmearedName(i)
          /\ key \notin DOMAIN tables
          /\ lookups[Len(lookups)] = key
          /\ \A b \in 0..(i - 1) : SmearedName(b) \in DOMAIN tables
          /\ \A b \in i..(Len(tmid) - 1) : At(nevents, b) = FZero
          /\ factor = FZero
          /\ figures = <<>>
          /\ ~HasTotal
    /\ pc \in {"outer", "inner"} =>
          \A b \in 0..(i - 1) : SmearedName(b) \in DOMAIN tables
    /\ AggregationDone =>
          \A b \in 0..(Len(tmid) - 1) : SmearedName(b) \in DOMAIN tables

\* Bin 0 was counted, bin 1 of 3 has no table.
C9_Witness ==
    /\ error = "KeyError"
    /\ window_bins = 3
    /\ i = 1
    /\ At(nevents, 0) = FromInt(6)
    /\ SmearedName(2) \in DOMAIN tables

\* C10: simulate and collate get the archive generate_fluence returned and the
\* same installation path; the keys looked up carry the output name given to
\* generate_fluence and the detector given to simulate.
C10_SameArtifact ==
    /\ Len(calls) >= 1 /\ calls[1].ret # "raised" => tarredfile = calls[1].ret
    /\ Len(calls) >= 2 =>
          /\ calls[2].args[2] = calls[1].ret
          /\ calls[2].args[2] \in Artifacts
    /\ Len(calls) >= 3 =>
          /\ calls[3].args[2] = calls[1].ret
          /\ calls[3].args[1] = calls[2].args[1]
    /\ \A k \in 1..Len(lookups) :
          \E b \in 0..(window_bins - 1) :
              lookups[k] = CollatedName(calls[1].args[5], b, calls[2].args[3],
                                        "events_smeared_weighted")

C10_Witness ==
    /\ Len(calls) = 3
    /\ calls[3].ret = "dict"
    /\ calls[1].ret = outfile \o ".kpc.tar.bz2"
    /\ Len(lookups) >= 2

\* ------------------------------------------------ the plotted coordinates
\* The bin width as line 73 computes it.
BinWidth == FlDiv(FlSub(window_tend, window_tstart), FromInt(window_bins))

\* The window's length as a float.
WindowLength == FlSub(window_tend, window_tstart)

\* The plotted time coordinates, the bin width and the window bounds, and the
\* exponent of the unit they are all whole multiples of.
PlotFloats ==
    {a \in Range(figures[1].x) \cup {BinWidth, WindowLength, window_tstart, window_tend} :
        a.m # 0}

PlotUnit == MinExp(PlotFloats)

\* The exact value of float a, in units of 2^PlotUnit.
Px(a) == IF a.m = 0 THEN 0 ELSE a.m * Pow2(a.e - PlotUnit)

\* One unit in the last place of window_tend, in units of 2^PlotUnit.
PlotUlp == Pow2(window_tend.e - PlotUnit)

IsConfigured ==
    /\ window_tstart = FromDecimal(742, 1000)
    /\ window_tend = FromDecimal(762, 1000)
    /\ window_bins = ConfiguredBins

\* C11, as claimed: with the configured window and 60 bins the plotted time
\* coordinates are tmid[i] - window_tstart; the first is exactly half a bin
\* width, consecutive ones differ by exactly one bin width, and all of them lie
\* strictly between 0 and window_tend - window_tstart.
C11_ExactOffsets ==
    PlotDone /\ IsConfigured =>
        LET x == figures[1].x
        IN  /\ Len(x) = window_bins
            /\ \A k \in 1..window_bins : x[k] = FlSub(tmid[k], window_tstart)
            /\ 2 * Px(x[1]) = Px(BinWidth)
            /\ \A k \in 1..(window_bins - 1) : Px(x[k + 1]) - Px(x[k]) = Px(BinWidth)
            /\ \A k \in 1..window_bins :
                  FlLess(FZero, x[k]) /\ FlLess(x[k], WindowLength)

\* C11, amended: with the configured window and 60 bins the plotted time
\* coordinates are tmid[i] - window_tstart, all strictly between 0 and
\* window_tend - window_tstart; the first is half a bin width and consecutive
\* ones differ by one bin width up to rounding, to within 4 units in the last
\* place of window_tend.
C11_OffsetsUpToRounding ==
    PlotDone /\ IsConfigured =>
        LET x == figures[1].x
        IN  /\ Len(x) = window_bins
            /\ \A k \in 1..window_bins : x[k] = FlSub(tmid[k], window_tstart)
            /\ Abs(2 * Px(x[1]) - Px(BinWidth)) <= 2 * 4 * PlotUlp
            /\ \A k \in 1..(window_bins - 1) :
                  Abs(Px(x[k + 1]) - Px(x[k]) - Px(BinWidth)) <= 4 * PlotUlp
            /\ \A k \in 1..window_bins :
                  FlLess(FZero, x[k]) /\ FlLess(x[k], WindowLength)

\* The 60 coordinates are plotted and the first is not half a bin width.
C11_Witness ==
    /\ PlotDone
    /\ IsConfigured
    /\ Len(figures[1].x) = ConfiguredBins
    /\ 2 * Px(figures[1].x[1]) # Px(BinWidth)
    /\ FlLess(FZero, figures[1].x[1])

InLoop == pc \in {"outer", "inner"}

\* What a step of the notebook leaves alone: one of the aggregation leaves
\* tables, tstart, tend and tmid, one of the iteration for bin i every entry of
\* nevents but that of bin i, and one after the loop all of nevents.
AggregationFrame ==
    /\ (pc \in {"zeros", "outer", "inner"}) => UNCHANGED <<tables, tstart, tend, tmid>>
    /\ InLoop => Len(nevents') = Len(nevents)
    /\ InLoop => \A k \in 0..(Len(nevents) - 1) :
                    (k # i) => (At(nevents', k) = At(nevents, k))
    /\ AggregationDone => UNCHANGED nevents

\* The bins not yet started are 0 and the bins finished hold the sum of the
\* entries of their table.
LoopCounts ==
    InLoop =>
        /\ Len(nevents) = Len(tmid)
        /\ i <= Len(tmid)
        /\ \A k \in 0..(Len(tmid) - 1) :
              (k > i \/ (k = i /\ pc = "outer")) => At(nevents, k) = FZero
        /\ \A k \in 0..(i - 1) : At(nevents, k) = FromInt(BinEntrySum(k))

\* C12: in the loop, nevents has an entry for every bin; the bins not yet
\* started are 0 and the bins finished hold their final value, the sum of the
\* entries of their table; a step of the iteration for bin i changes no entry
\* of nevents but that of bin i, no step after the loop changes nevents, and
\* no step of the aggregation changes tables, tstart, tend or tmid.
C12_OnlyOwnBin == []LoopCounts /\ [][AggregationFrame]_vars

\* Bin 0 is finished, bin 1 has a column counted and a column to go, bin 2 is
\* not started.
C12_Witness ==
    /\ pc = "inner"
    /\ window_bins = 3
    /\ i = 1
    /\ j = 2
    /\ j < ncols
    /\ At(nevents, 0) = FromInt(6)
    /\ At(nevents, 1) = FromInt(1 + 2)
    /\ At(nevents, 2) = FZero

\* The count a table gives: the sum of the entries of its columns 1 .. H-1.
TableCount(t) == ColumnsSum(t, 1, TokenCount(t.header) - 1)

\* The key of the bin being aggregated differs from the key of every bin
\* before it and names a table, and the count of every finished bin is the
\* count of the table under its own key.
KeysApart ==
    InLoop =>
        /\ \A b \in 0..(i - 1) : Key(b) # Key(i)
        /\ pc = "inner" => key = Key(i) /\ key \in DOMAIN tables
        /\ \A b \in 0..(i - 1) : At(nevents, b) = FromInt(TableCount(tables[Key(b)]))

\* A step that indexes tables does so with the key made of the output name
\* given to generate_fluence, the index of the bin being aggregated, the
\* detector given to simulate and the stage events_smeared_weighted.
KeyBuilt ==
    Len(lookups') > Len(lookups) =>
        lookups' = Append(lookups,
                          CollatedName(calls[1].args[5], i, calls[2].args[3],
                                       "events_smeared_weighted"))

\* C13: the keys of different bins differ, every key looked up carries the
\* one output name, the one detector and the stage events_smeared_weighted
\* with the index of the bin it is built for, so each bin reads the table
\* under its own key and nevents[i] is the count of that table alone.
C13_OwnTable == []KeysApart /\ [][KeyBuilt]_vars

\* Bin 10 of 60 is being aggregated (its index shares a digit with bins 0 and
\* 1); bins 0 and 1 had different tables and have different counts.
C13_Witness ==
    /\ pc = "inner"
    /\ window_bins = ConfiguredBins
    /\ i = 10
    /\ key = Key(10)
    /\ tables[Key(0)] # tables[Key(1)]
    /\ At(nevents, 0) # At(nevents, 1)
    /\ At(nevents, 0) = FromInt(TableCount(tables[Key(0)]))

\* The bins whose iteration has ended without an error.
FinishedBins ==
    IF InLoop THEN 0..(i - 1)
    ELSE IF AggregationDone THEN 0..(Len(tmid) - 1)
    ELSE {}

HeaderTokens(b) == TokenCount(tables[Key(b)].header)

DataColumns(b) == Len(tables[Key(b)].data)

\* C14, as claimed: a bin whose data has fewer columns than its header has
\* tokens never finishes, the aggregation fails with an IndexError at the
\* first column the data does not have; a bin whose header has at most one
\* token keeps the count 0 and raises no error.
C14_FailsWheneverShort ==
    /\ \A b \in FinishedBins : DataColumns(b) >= HeaderTokens(b)
    /\ error = "IndexError" =>
          /\ pc = "failed"
          /\ DataColumns(i) < HeaderTokens(i)
          /\ j = DataColumns(i)
    /\ \A b \in FinishedBins : HeaderTokens(b) <= 1 => At(nevents, b) = FZero

\* C14, amended: the stop of the inner range is the number H of header
\* tokens.  When H >= 2 and the data has C < H columns the aggregation fails
\* with an IndexError at column max(C, 1), the first of the columns 1 .. H-1
\* that the data does not have: the bin holds the sum of the columns before it
\* and no factor, plot or total is produced.  A bin that finishes has H <= 1
\* or C >= H; when H <= 1 its count stays 0 and no error is raised, whatever
\* the data.
C14_HeaderDecides ==
    /\ pc = "inner" => ncols = HeaderTokens(i)
    /\ error = "IndexError" =>
          /\ pc = "failed"
          /\ key = Key(i)
          /\ HeaderTokens(i) >= 2
          /\ DataColumns(i) < HeaderTokens(i)
          /\ j = (IF DataColumns(i) = 0 THEN 1 ELSE DataColumns(i))
          /\ At(nevents, i) = FromInt(ColumnsSum(tables[key], 1, j - 1))
          /\ factor = FZero
          /\ figures = <<>>
          /\ ~HasTotal
    /\ \A b \in FinishedBins :
          /\ HeaderTokens(b) <= 1 \/ DataColumns(b) >= HeaderTokens(b)
          /\ HeaderTokens(b) <= 1 => At(nevents, b) = FZero

\* Bin 0 has a header of one token and no data: it finished with the count 0.
\* Bin 1 has a header of three tokens and two columns: column 1 was added and
\* the aggregation failed at column 2.
C14_Witness ==
    /\ error = "IndexError"
    /\ i = 1
    /\ j = 2
    /\ HeaderTokens(0) = 1
    /\ DataColumns(0) = 0
    /\ At(nevents, 0) = FZero
    /\ HeaderTokens(1) = 3
    /\ DataColumns(1) = 2
    /\ At(nevents, 1) = FromInt(1 + 2)

\* The three calls of the toolkit have returned.
CallsReturned == Len(calls) = 3 /\ calls[3].ret = "dict"

\* Every bin has a table, and the data of the table has the columns the
\* inner loop reads.
TablesComplete ==
    \A b \in 0..(window_bins - 1) :
        /\ Key(b) \in DOMAIN tables
        /\ HeaderTokens(b) <= 1 \/ DataColumns(b) >= HeaderTokens(b)

\* The number of times tables was indexed with the key of bin b: once in the
\* outer iteration (line 141) and once in each inner iteration (line 142).
Reads(b) == Cardinality({k \in 1..Len(lookups) : lookups[k] = Key(b)})

Max(a, b) == IF a >= b THEN a ELSE b

\* The outer loop ran len(tmid) iterations, the inner loop of bin b ran
\* max(H_b - 1, 0) iterations, one plot and the total were produced.
RanToTheEnd ==
    /\ pc = "done"
    /\ i = Len(tmid)
    /\ Len(tmid) = window_bins
    /\ \A b \in 0..(window_bins - 1) : Reads(b) - 1 = Max(HeaderTokens(b) - 1, 0)
    /\ Len(figures) = 1
    /\ HasTotal

LoopFailed ==
    /\ pc = "failed"
    /\ error \in {"KeyError", "IndexError"}
    /\ figures = <<>>
    /\ ~HasTotal

Ended == pc \in {"done", "failed"}

\* The statements of the notebook still to come, the loop counted as one.
StagesLeft ==
    CASE pc = "cell3" -> 9
      [] pc = "generate_fluence" -> 8
      [] pc = "simulate" -> 7
      [] pc = "collate" -> 6
      [] pc = "zeros" -> 5
      [] pc \in {"outer", "inner"} -> 4
      [] pc = "factor" -> 3
      [] pc = "plot" -> 2
      [] pc = "total" -> 1
      [] pc \in {"done", "failed"} -> 0

\* The largest number of tokens of a header in tables.
Widest ==
    LET hs == {TokenCount(tables[k].header) : k \in DOMAIN tables}
    IN  IF hs = {} THEN 0 ELSE CHOOSE h \in hs : \A g \in hs : g <= h

\* The bins the outer loop has not finished, and the steps the inner loop of
\* the bin in progress has left (before it has begun, more than any inner loop
\* takes).
BinsLeft == IF InLoop THEN Len(tmid) - i ELSE 0

InnerLeft ==
    IF pc = "inner" THEN Max(ncols - j, 0)
    ELSE IF pc = "outer" THEN Widest + 1
    ELSE 0

\* Every step takes the run nearer to its end: a later statement, or in the
\* loop a later bin, or in a bin a later column.
StepNearerEnd ==
    \/ StagesLeft' < StagesLeft
    \/ StagesLeft' = StagesLeft /\ BinsLeft' < BinsLeft
    \/ StagesLeft' = StagesLeft /\ BinsLeft' = BinsLeft /\ InnerLeft' < InnerLeft

\* What has ended after the three calls returned has run to the end, or has
\* failed in the loop over tables that are not complete.
EndedRight ==
    /\ BinsLeft >= 0
    /\ InnerLeft >= 0
    /\ pc = "done" => RanToTheEnd /\ TablesComplete
    /\ (CallsReturned /\ pc = "failed") => LoopFailed /\ ~TablesComplete

\* C15, as claimed: a run in which the three calls have returned ends with
\* the aggregation run to the end: len(tmid) outer iterations, max(H_i - 1, 0)
\* inner iterations for bin i, then the plot and the total.
C15_AlwaysCompletes == (CallsReturned /\ Ended) => RanToTheEnd

\* C15, amended: the aggregation always terminates: every step of the
\* notebook is a step towards its end (a later statement, a later bin or a
\* later column of the bin), of which there are finitely many.  When the three
\* calls have returned and every bin has a table with the columns its header
\* names, the run ends done: len(tmid) outer iterations, max(H_i - 1, 0)
\* inner iterations for bin i, then the plot and the total.  Otherwise it ends
\* in the loop with a KeyError or an IndexError and no plot and no total.
C15_Terminates == []EndedRight /\ [][StepNearerEnd]_vars

\* The 60 bins were aggregated and the total printed: three reads of the
\* table of bin 0, whose header has three tokens, one of the table of bin 1,
\* whose header has one.
C15_Witness ==
    /\ pc = "done"
    /\ window_bins = ConfiguredBins
    /\ i = ConfiguredBins
    /\ HeaderTokens(0) = 3
    /\ Reads(0) = 3
    /\ HeaderTokens(1) = 1
    /\ Reads(1) = 1
    /\ Reads(ConfiguredBins - 1) = 1
    /\ HasTotal

====
